---- MODULE Spec2Model ----
(***************************************************************************)
(* Model of the bill line-item extraction service:                         *)
(*   - app/schemas.py: BillItem.clean_floats (numeric normalizer) and      *)
(*     PageLineItems.validate_page_type (page-type normalizer);            *)
(*   - app/line_item_extractor_OLD.py: the heuristic line parser;          *)
(*   - app/vision_extractor.py: repair_bill_items and the page pipeline.   *)
(*                                                                         *)
(* Texts are sequences of characters (one-character strings; the few       *)
(* non-ASCII characters are named: "RUPEE" is U+20B9, and "A_CIRC",        *)
(* "LOW9", "SUP1" are U+00E2, U+201A, U+00B9).  Floats are exact rationals *)
(* [n, d] in lowest terms; Python's binary rounding error is not modelled. *)
(***************************************************************************)
EXTENDS Integers, Sequences, FiniteSets, TLC

VARIABLES
    value,           \* clean_floats: the raw field value v
    cleaned,         \* clean_floats: its outcome
    label,           \* validate_page_type: the raw label v
    page_type,       \* validate_page_type + enum validation: its outcome
    all_pages_lines, \* extract_pagewise_line_items: the pages' lines
    idx,             \* ... the page being read (enumerate from 1)
    line_pos,        \* ... how many of its lines were read
    bill_items,      \* ... the items of the page so far
    last,            \* ... the locals at the end of the last iteration
    pagewise_items,  \* ... the pages finished
    bill_data,       \* repair_bill_items: the document passed in (mutated in place)
    passes,          \* repair_bill_items: how many times it has run on bill_data
    chunks,          \* extract_data_with_llm: the page numbers, one task each
    tasks,           \* ... where each safe_process task stands, and its attempt
    semaphore,       \* ... the permits left
    calls,           \* ... per page, the replies of the external service so far
    results,         \* ... per page, what process_page_vision returned
    final_data,      \* ... the document returned
    response,        \* main.process_extraction: what the endpoint answers
    service          \* the replies the external service may give in this run

varsNorm == <<value, cleaned>>
varsType == <<label, page_type>>
varsParser == <<all_pages_lines, idx, line_pos, bill_items, last, pagewise_items>>
varsRepair == <<bill_data, passes>>
varsVision ==
    <<chunks, tasks, semaphore, calls, results, final_data, response, service>>
vars == <<value, cleaned, label, page_type,
          all_pages_lines, idx, line_pos, bill_items, last, pagewise_items,
          bill_data, passes, chunks, tasks, semaphore, calls, results, final_data,
          response, service>>

----------------------------------------------------------------------------
(* Rationals *)

RECURSIVE GCD(_, _)
GCD(a, b) == IF b = 0 THEN a ELSE GCD(b, a % b)

Abs(x) == IF x < 0 THEN -x ELSE x

\* n/d in lowest terms; as in float arithmetic, 1/0 and -1/0 are the
\* infinities and 0/0 is nan
R(n, d) ==
    LET g == GCD(Abs(n), Abs(d))
        s == IF d < 0 THEN -1 ELSE 1
    IN  IF g = 0 THEN [n |-> 0, d |-> 0]
        ELSE [n |-> s * (n \div g), d |-> s * (d \div g)]

RInt(k) == [n |-> k, d |-> 1]
RZero == RInt(0)
ROne == RInt(1)
RMul(a, b) == R(a.n * b.n, a.d * b.d)
RDiv(a, b) == R(a.n * b.d, a.d * b.n)
RSub(a, b) == R(a.n * b.d - b.n * a.d, a.d * b.d)
RAbs(a) == [n |-> Abs(a.n), d |-> a.d]
RInf == [n |-> 1, d |-> 0]
RNaN == [n |-> 0, d |-> 0]
\* a comparison with nan is false
RLt(a, b) ==
    /\ a # RNaN /\ b # RNaN
    /\ IF a.d = 0 /\ b.d = 0 THEN a.n < b.n ELSE a.n * b.d < b.n * a.d
RLe(a, b) ==
    /\ a # RNaN /\ b # RNaN
    /\ IF a.d = 0 /\ b.d = 0 THEN a.n <= b.n ELSE a.n * b.d <= b.n * a.d
RMax(a, b) == IF RLt(a, b) THEN b ELSE a
RIsInteger(a) == a.d = 1

----------------------------------------------------------------------------
(* Python str operations *)

UpperCase == <<"A", "B", "C", "D", "E", "F", "G", "H", "I", "J", "K", "L", "M",
               "N", "O", "P", "Q", "R", "S", "T", "U", "V", "W", "X", "Y", "Z">>
LowerCase == <<"a", "b", "c", "d", "e", "f", "g", "h", "i", "j", "k", "l", "m",
               "n", "o", "p", "q", "r", "s", "t", "u", "v", "w", "x", "y", "z">>
Digits == <<"0", "1", "2", "3", "4", "5", "6", "7", "8", "9">>

DigitSet == {Digits[i] : i \in 1..10}
DigitValues == [c \in DigitSet |-> (CHOOSE i \in 1..10 : Digits[i] = c) - 1]
LowerOf == [c \in {UpperCase[i] : i \in 1..26} |->
               LowerCase[CHOOSE i \in 1..26 : UpperCase[i] = c]]

\* one symbol for a run of 400 nines, a number above the largest float
LongRun == "NINES"
IsDigit(c) == c \in DigitSet \/ c = LongRun
DigitVal(c) == DigitValues[c]
IsSpace(c) == c \in {" ", "TAB", "NL"}

LowerChar(c) == IF c \in DOMAIN LowerOf THEN LowerOf[c] ELSE c

Lower(s) == [i \in 1..Len(s) |-> LowerChar(s[i])]

StartsAt(s, i, pat) ==
    /\ i + Len(pat) - 1 <= Len(s)
    /\ \A j \in 1..Len(pat) : s[i + j - 1] = pat[j]

Contains(s, pat) == \E i \in 1..(Len(s) + 1) : StartsAt(s, i, pat)

RECURSIVE RemoveFrom(_, _, _)
RemoveFrom(s, i, old) ==
    IF i > Len(s) THEN <<>>
    ELSE IF StartsAt(s, i, old) THEN RemoveFrom(s, i + Len(old), old)
    ELSE <<s[i]>> \o RemoveFrom(s, i + 1, old)

\* s.replace(old, '') for a non-empty old
Remove(s, old) == RemoveFrom(s, 1, old)

\* s.strip(chars): drop leading and trailing characters of the set
RECURSIVE SkipLeft(_, _, _)
SkipLeft(s, i, cs) == IF i <= Len(s) /\ s[i] \in cs THEN SkipLeft(s, i + 1, cs) ELSE i

RECURSIVE SkipRight(_, _, _)
SkipRight(s, i, cs) == IF i >= 1 /\ s[i] \in cs THEN SkipRight(s, i - 1, cs) ELSE i

StripChars(s, cs) == SubSeq(s, SkipLeft(s, 1, cs), SkipRight(s, Len(s), cs))

Strip(s) == StripChars(s, {" ", "TAB", "NL"})

RECURSIVE Pow10(_)
Pow10(k) == IF k = 0 THEN 1 ELSE 10 * Pow10(k - 1)

RECURSIVE DigitsVal(_)
DigitsVal(s) ==
    IF s = <<>> THEN 0 ELSE 10 * DigitsVal(SubSeq(s, 1, Len(s) - 1)) + DigitVal(s[Len(s)])

\* float values: finite numbers, the infinities and nan
FNum(r) == [k |-> "num", v |-> r]
FInf(neg) == [k |-> "inf", v |-> IF neg THEN RInt(-1) ELSE ROne]
FNan == [k |-> "nan", v |-> RZero]
ValueError == [k |-> "ValueError", v |-> RZero]

\* float(s) on an unsigned literal: digits with at most one point, at least
\* one digit (no exponent, no underscore: the inputs contain none); digits
\* beyond the float range give inf (the inputs hold the long run before the
\* point only)
UnsignedFloat(s) ==
    LET dots == {i \in 1..Len(s) : s[i] = "."}
    IN  IF s = <<>> \/ \E i \in 1..Len(s) : ~IsDigit(s[i]) /\ s[i] # "."
        THEN ValueError
        ELSE IF Cardinality(dots) > 1 \/ Cardinality(dots) = Len(s) THEN ValueError
        ELSE IF \E i \in 1..Len(s) : s[i] = LongRun THEN FInf(FALSE)
        ELSE IF dots = {} THEN FNum(RInt(DigitsVal(s)))
        ELSE LET p == CHOOSE i \in dots : TRUE
                 ip == SubSeq(s, 1, p - 1)
                 fp == SubSeq(s, p + 1, Len(s))
             IN  FNum(R(DigitsVal(ip \o fp), Pow10(Len(fp))))

FNeg(f) ==
    IF f.k = "num" THEN FNum(R(-f.v.n, f.v.d))
    ELSE IF f.k = "inf" THEN FInf(f.v.n > 0)
    ELSE f

\* Python float(str): surrounding whitespace, an optional sign, then a
\* decimal literal or one of inf / infinity / nan in any case
StrToFloat(str) ==
    LET s == Strip(str)
        signed == s # <<>> /\ s[1] \in {"+", "-"}
        body == IF signed THEN SubSeq(s, 2, Len(s)) ELSE s
        low == Lower(body)
        mag == IF low \in {<<"i", "n", "f">>, <<"i", "n", "f", "i", "n", "i", "t", "y">>}
               THEN FInf(FALSE)
               ELSE IF low = <<"n", "a", "n">> THEN FNan
               ELSE UnsignedFloat(body)
    IN  IF signed /\ s[1] = "-" THEN FNeg(mag) ELSE mag

----------------------------------------------------------------------------
(* app/schemas.py: BillItem.clean_floats *)

Returned(f) == [st |-> "returned", f |-> f, exc |-> "none"]
Raised(e) == [st |-> "raised", f |-> FNan, exc |-> e]
NotRun == [st |-> "notrun", f |-> FNan, exc |-> "none"]

\* float(v) for v a float, an int or a bool; an int beyond the largest
\* finite double makes float() raise OverflowError
PyFloat(v) ==
    IF v.t = "int" /\ v.huge THEN Raised("OverflowError")
    ELSE Returned(v.f)

Placeholders == {<<"n", "a", "n">>, <<"n", "u", "l", "l">>, <<"n", "/", "a">>,
                 <<"n", "o", "n", "e">>, <<>>}

\* the fourth literal removed by clean_floats, as it stands in the source
RupeeLiteral == <<"A_CIRC", "LOW9", "SUP1">>

clean_floats(v) ==
    IF v.t \in {"float", "int", "bool"} THEN PyFloat(v)
    ELSE IF v.t = "str"
    THEN LET clean_str ==
                 Strip(Remove(Remove(Remove(Remove(v.s, <<",">>), <<"R", "s">>),
                                     <<"$">>), RupeeLiteral))
         IN  IF clean_str = <<>> \/ Lower(clean_str) \in Placeholders
             THEN Returned(FNum(RZero))
             ELSE IF StrToFloat(clean_str).k = "ValueError"
                  THEN Returned(FNum(RZero))
                  ELSE Returned(StrToFloat(clean_str))
    ELSE Returned(FNum(RZero))

----------------------------------------------------------------------------
(* Inputs of clean_floats: JSON scalars as json.loads delivers them *)

MaxFrags == 3

\* pieces a text field is made of; val is the value a numeral denotes
Frag(kind, s, val) == [kind |-> kind, s |-> s, val |-> val]

CurrencyFrags ==
    { Frag("currency", <<"$">>, RZero),
      Frag("currency", <<"RUPEE">>, RZero),
      Frag("currency", <<"R", "s">>, RZero),
      Frag("space", <<" ">>, RZero) }

NumeralFrags ==
    { Frag("numeral", <<"1", ",", "2", "0", "0", ".", "0", "0">>, RInt(1200)),
      Frag("numeral", <<"1", "2", "0", "0">>, RInt(1200)),
      Frag("numeral", <<"5", "0">>, RInt(50)),
      Frag("numeral", <<"0", ".", "5">>, R(1, 2)) }

OtherFrags ==
    { Frag("placeholder", <<"N", "/", "A">>, RZero),
      Frag("placeholder", <<"n", "a", "n">>, RZero),
      Frag("placeholder", <<"N", "U", "L", "L">>, RZero),
      Frag("placeholder", <<"N", "o", "n", "e">>, RZero),
      Frag("garbage", <<"a", "b", "c">>, RZero),
      Frag("garbage", <<"-">>, RZero),
      Frag("garbage", <<".">>, RZero) }

TextFrags == CurrencyFrags \cup NumeralFrags \cup OtherFrags

RECURSIVE Join(_)
Join(fs) == IF fs = <<>> THEN <<>> ELSE Head(fs).s \o Join(Tail(fs))

FragSeqs(F, k) == UNION {[1..n -> F] : n \in 0..k}

StrValue(fs) == [t |-> "str", s |-> Join(fs), frags |-> fs, f |-> FNan, huge |-> FALSE]
NumValue(t, f, huge) == [t |-> t, s |-> <<>>, frags |-> <<>>, f |-> f, huge |-> huge]

NumberInputs ==
    { NumValue("int", FNum(RInt(2)), FALSE),
      NumValue("int", FNum(RZero), FALSE),
      NumValue("int", FNum(RInt(-3)), FALSE),
      NumValue("int", FInf(FALSE), TRUE),          \* e.g. 10**400
      NumValue("float", FNum(R(2401, 2)), FALSE),
      NumValue("float", FNum(RZero), FALSE),
      NumValue("float", FNan, FALSE),
      NumValue("float", FInf(FALSE), FALSE),
      NumValue("bool", FNum(ROne), FALSE),
      NumValue("bool", FNum(RZero), FALSE) }

OtherInputs ==
    { NumValue("none", FNan, FALSE), NumValue("list", FNan, FALSE),
      NumValue("dict", FNan, FALSE) }

\* a text holds at most one numeral: two numerals side by side read as one
\* longer numeral or as a parse failure, which the other texts cover
OneNumeral(fs) == Cardinality({i \in DOMAIN fs : fs[i].kind = "numeral"}) <= 1

NormInputs ==
    {StrValue(fs) : fs \in {gs \in FragSeqs(TextFrags, MaxFrags) : OneNumeral(gs)}}
        \cup NumberInputs \cup OtherInputs

IdleValue == NumValue("idle", FNan, FALSE)

NormIdle == value = IdleValue /\ cleaned = NotRun

\* the validator runs once on the field value
CleanFloats ==
    /\ value # IdleValue
    /\ cleaned = NotRun
    /\ cleaned' = clean_floats(value)
    /\ UNCHANGED <<value, varsType, varsParser, varsRepair, varsVision>>

----------------------------------------------------------------------------
(* app/schemas.py: PageTypeEnum, PageLineItems.validate_page_type *)

BILL_DETAIL == "Bill Detail"
FINAL_BILL == "Final Bill"
PHARMACY == "Pharmacy"

EnumMember(e) == [t |-> "enum", e |-> e]
RawLabel(v) == [t |-> v.t, e |-> "raw"]

\* validate_page_type with the two tests in the other order
validate_page_type_final_first(v) ==
    IF v.t = "str"
    THEN IF \/ Contains(Lower(v.s), <<"f", "i", "n", "a", "l">>)
            \/ Contains(Lower(v.s), <<"s", "u", "m", "m", "a", "r", "y">>)
         THEN EnumMember(FINAL_BILL)
         ELSE IF Contains(Lower(v.s), <<"p", "h", "a", "r", "m", "a", "c", "y">>)
              THEN EnumMember(PHARMACY)
              ELSE EnumMember(BILL_DETAIL)
    ELSE RawLabel(v)

validate_page_type(v) ==
    IF v.t = "str"
    THEN IF Contains(Lower(v.s), <<"p", "h", "a", "r", "m", "a", "c", "y">>)
         THEN EnumMember(PHARMACY)
         ELSE IF \/ Contains(Lower(v.s), <<"f", "i", "n", "a", "l">>)
                 \/ Contains(Lower(v.s), <<"s", "u", "m", "m", "a", "r", "y">>)
              THEN EnumMember(FINAL_BILL)
              ELSE EnumMember(BILL_DETAIL)
    ELSE RawLabel(v)

\* the field page_type: PageTypeEnum: what the before-validator returns is
\* validated as a PageTypeEnum; a value that is no member (None, a number,
\* a list) is a ValidationError
PageTypeField(v) ==
    IF validate_page_type(v).t = "enum"
    THEN [st |-> "valid", e |-> validate_page_type(v).e]
    ELSE [st |-> "ValidationError", e |-> "none"]

TypeNotRun == [st |-> "notrun", e |-> "none"]

LabelFrags ==
    { Frag("pharmacy", <<"p", "h", "a", "r", "m", "a", "c", "y">>, RZero),
      Frag("pharmacy", <<"P", "H", "A", "R", "M", "A", "C", "Y">>, RZero),
      Frag("pharmacy", <<"P", "h", "a", "r", "m", "a", "c", "y">>, RZero),
      Frag("final", <<"f", "i", "n", "a", "l">>, RZero),
      Frag("final", <<"F", "i", "n", "a", "l">>, RZero),
      Frag("summary", <<"S", "u", "m", "m", "a", "r", "y">>, RZero),
      Frag("summary", <<"S", "U", "M", "M", "A", "R", "Y">>, RZero),
      Frag("other", <<"G", "r", "a", "n", "d", " ">>, RZero),
      Frag("other", <<" ", "I", "T", "E", "M", "S">>, RZero),
      Frag("other", <<"R", "o", "o", "m", " ", "C", "h", "a", "r", "g", "e", "s">>, RZero),
      Frag("other", <<"B", "i", "l", "l", " ", "D", "e", "t", "a", "i", "l">>, RZero),
      Frag("other", <<" ">>, RZero) }

LabelInputs ==
    {StrValue(fs) : fs \in FragSeqs(LabelFrags, MaxFrags)} \cup OtherInputs
        \cup {NumValue("int", FNum(RInt(2)), FALSE)}

TypeIdle == label = IdleValue /\ page_type = TypeNotRun

ValidatePageType ==
    /\ label # IdleValue
    /\ page_type = TypeNotRun
    /\ page_type' = PageTypeField(label)
    /\ UNCHANGED <<label, varsNorm, varsParser, varsRepair, varsVision>>

----------------------------------------------------------------------------
(* app/line_item_extractor_OLD.py: regular expressions *)

Letters == {UpperCase[i] : i \in 1..26} \cup {LowerCase[i] : i \in 1..26}

\* \w
IsWord(c) == IsDigit(c) \/ c \in Letters \/ c = "_"

\* \b before position i (between s[i-1] and s[i])
WordBoundary(s, i) ==
    (i > 1 /\ IsWord(s[i - 1])) # (i <= Len(s) /\ IsWord(s[i]))

AllDigits(s, i, k) == i + k - 1 <= Len(s) /\ \A j \in i..(i + k - 1) : IsDigit(s[j])
IsDateSep(s, i) == i <= Len(s) /\ s[i] \in {"/", ".", "-"}

\* \b\d{a}[/.-]\d{b}[/.-]\d{c}\b at position i
DateShapeAt(s, i, a, b, c) ==
    /\ WordBoundary(s, i)
    /\ AllDigits(s, i, a)
    /\ IsDateSep(s, i + a)
    /\ AllDigits(s, i + a + 1, b)
    /\ IsDateSep(s, i + a + 1 + b)
    /\ AllDigits(s, i + a + b + 2, c)
    /\ WordBoundary(s, i + a + b + c + 2)

\* date_pattern matched at position i: the length of the match, 0 for none;
\* the greedy quantifiers give up digits from the right-most one first
DateMatchLen(s, i) ==
    LET shapes == IF IsDigit(s[i]) /\ WordBoundary(s, i)
                  THEN {abc \in {1, 2} \X {1, 2} \X {2, 3, 4} :
                            DateShapeAt(s, i, abc[1], abc[2], abc[3])}
                  ELSE {}
        prefer(x, y) == \/ x[1] > y[1]
                        \/ x[1] = y[1] /\ x[2] > y[2]
                        \/ x[1] = y[1] /\ x[2] = y[2] /\ x[3] >= y[3]
    IN  IF shapes = {} THEN 0
        ELSE LET m == CHOOSE x \in shapes : \A y \in shapes : prefer(x, y)
             IN  m[1] + m[2] + m[3] + 2

RECURSIVE RemoveDatesFrom(_, _)
RemoveDatesFrom(s, i) ==
    IF i > Len(s) THEN <<>>
    ELSE LET m == DateMatchLen(s, i)
         IN  IF m > 0 THEN RemoveDatesFrom(s, i + m)
             ELSE <<s[i]>> \o RemoveDatesFrom(s, i + 1)

\* re.sub(date_pattern, "", line)
RemoveDates(s) == RemoveDatesFrom(s, 1)

RECURSIVE DigitRunEnd(_, _)
\* the last position of the run of digits that starts at i
DigitRunEnd(s, i) ==
    IF i + 1 <= Len(s) /\ IsDigit(s[i + 1]) THEN DigitRunEnd(s, i + 1) ELSE i

\* num_pattern \d+(?:\.\d+)? matched at a digit position i: its last position
NumMatchEnd(s, i) ==
    LET e == DigitRunEnd(s, i)
    IN  IF e + 2 <= Len(s) /\ s[e + 1] = "." /\ IsDigit(s[e + 2])
        THEN DigitRunEnd(s, e + 2)
        ELSE e

RECURSIVE FindAllNumbers(_, _)
\* re.findall(num_pattern, s): the matched texts, left to right
FindAllNumbers(s, i) ==
    IF i > Len(s) THEN <<>>
    ELSE IF IsDigit(s[i])
         THEN LET e == NumMatchEnd(s, i)
              IN  <<SubSeq(s, i, e)>> \o FindAllNumbers(s, e + 1)
         ELSE FindAllNumbers(s, i + 1)

\* re.search(num_pattern, s).start() as a count of characters before the
\* match; Len(s) + 1 stands for no match
RECURSIVE FirstDigitFrom(_, _)
FirstDigitFrom(s, i) ==
    IF i > Len(s) \/ IsDigit(s[i]) THEN i ELSE FirstDigitFrom(s, i + 1)

FirstNumStart(s) ==
    IF FirstDigitFrom(s, 1) <= Len(s) THEN FirstDigitFrom(s, 1) - 1 ELSE Len(s) + 1

RECURSIVE SkipSpaces(_, _)
SkipSpaces(s, i) == IF i <= Len(s) /\ IsSpace(s[i]) THEN SkipSpaces(s, i + 1) ELSE i

\* re.sub(r"^\d+\s*[\.\-\)]?\s*", "", name)
StripSerial(name) ==
    IF name = <<>> \/ ~IsDigit(name[1]) THEN name
    ELSE LET a == SkipSpaces(name, DigitRunEnd(name, 1) + 1)
             b == IF a <= Len(name) /\ name[a] \in {".", "-", ")"} THEN a + 1 ELSE a
             c == SkipSpaces(name, b)
         IN  SubSeq(name, c, Len(name))

----------------------------------------------------------------------------
(* app/line_item_extractor_OLD.py: is_header_or_meta, extract_pagewise_line_items *)

Keywords ==
    { <<"i", "n", "v", "o", "i", "c", "e">>, <<"b", "i", "l", "l", " ", "n", "o">>,
      <<"b", "i", "l", "l", " ", "n", "u", "m", "b", "e", "r">>,
      <<"d", "a", "t", "e", ":">>, <<"t", "i", "m", "e", ":">>, <<"u", "h", "i", "d">>,
      <<"i", "p", " ", "n", "o">>, <<"w", "a", "r", "d">>, <<"b", "e", "d">>,
      <<"a", "g", "e">>, <<"s", "e", "x">>, <<"d", "o", "c", "t", "o", "r">>,
      <<"c", "o", "n", "s", "u", "l", "t", "a", "n", "t">>, <<"t", "o", "t", "a", "l">>,
      <<"s", "u", "b", " ", "t", "o", "t", "a", "l">>, <<"s", "u", "b", "t", "o", "t", "a", "l">>,
      <<"g", "r", "a", "n", "d", " ", "t", "o", "t", "a", "l">>,
      <<"n", "e", "t", " ", "a", "m", "o", "u", "n", "t">>,
      <<"a", "m", "o", "u", "n", "t", " ", "i", "n", " ", "w", "o", "r", "d", "s">> }

\* is_header_or_meta without the lower() of line 6
is_header_or_meta_case_sensitive(line) ==
    \E k \in Keywords : Contains(line, k)

is_header_or_meta(line) ==
    LET lower == Lower(line) IN \E k \in Keywords : Contains(lower, k)

\* float(x) of a matched number text
NumVal(x) == LET f == UnsignedFloat(x) IN IF f.k = "inf" THEN RInf ELSE f.v

\* the year filter: an integer 1900..2100 written without a point
IsYear(x) ==
    /\ RLe(RInt(1900), NumVal(x)) /\ RLe(NumVal(x), RInt(2100))
    /\ RIsInteger(NumVal(x))
    /\ \A i \in 1..Len(x) : x[i] # "."

RECURSIVE KeepNumbers(_)
KeepNumbers(raw) ==
    IF raw = <<>> THEN <<>>
    ELSE IF IsYear(Head(raw)) THEN KeepNumbers(Tail(raw))
    ELSE <<NumVal(Head(raw))>> \o KeepNumbers(Tail(raw))

\* numbers: the values left after date removal and the year filter
Numbers(line) == KeepNumbers(FindAllNumbers(RemoveDates(line), 1))

Tolerance(cand_amount) == RMax(ROne, RMul(R(1, 20), cand_amount))
Multiplies(x, y, cand_amount) ==
    RLt(RAbs(RSub(RMul(x, y), cand_amount)), Tolerance(cand_amount))

QRA(q, r, a) == [quantity |-> q, rate |-> r, amount |-> a]

\* the fallback with cand_2 tested where line 116 tests cand_3
Fallback_SecondaryCandidate(numbers) ==
    LET n == Len(numbers)
        amount == numbers[n]
        cand_2 == numbers[n - 1]
    IN  IF n >= 3
        THEN IF RLe(cand_2, RInt(100)) /\ RIsInteger(cand_2)
             THEN QRA(cand_2,
                      IF RLt(RZero, cand_2) THEN RDiv(amount, cand_2) ELSE amount,
                      amount)
             ELSE QRA(ROne, amount, amount)
        ELSE IF RLe(cand_2, RInt(50)) /\ RIsInteger(cand_2)
             THEN QRA(cand_2,
                      IF RLt(RZero, cand_2) THEN RDiv(amount, cand_2) ELSE amount,
                      amount)
             ELSE IF RLt(RAbs(RSub(cand_2, amount)), R(1, 10))
                  THEN QRA(ROne, cand_2, amount)
                  ELSE QRA(ROne, amount, amount)

\* the fallback of lines 101-139: no multiplicative match
Fallback(numbers) ==
    LET n == Len(numbers)
        amount == numbers[n]
        cand_2 == numbers[n - 1]
    IN  IF n >= 3
        THEN LET cand_3 == numbers[n - 2]
             IN  IF RLe(cand_3, RInt(100)) /\ RIsInteger(cand_3)
                 THEN QRA(cand_3,
                          IF RLt(RZero, cand_3) THEN RDiv(amount, cand_3) ELSE amount,
                          amount)
                 ELSE QRA(ROne, amount, amount)
        ELSE IF RLe(cand_2, RInt(50)) /\ RIsInteger(cand_2)
             THEN QRA(cand_2,
                      IF RLt(RZero, cand_2) THEN RDiv(amount, cand_2) ELSE amount,
                      amount)
             ELSE IF RLt(RAbs(RSub(cand_2, amount)), R(1, 10))
                  THEN QRA(ROne, cand_2, amount)
                  ELSE QRA(ROne, amount, amount)

\* Heuristics with Option 2 (rate, quantity, amount) tried before Option 1
Heuristics_RateFirst(numbers) ==
    LET n == Len(numbers)
    IN  IF n = 1 THEN QRA(ROne, numbers[1], numbers[1])
        ELSE IF n >= 3 /\ Multiplies(numbers[n - 1], numbers[n - 2], numbers[n])
             THEN QRA(numbers[n - 1], numbers[n - 2], numbers[n])
        ELSE IF n >= 3 /\ Multiplies(numbers[n - 2], numbers[n - 1], numbers[n])
             THEN QRA(numbers[n - 2], numbers[n - 1], numbers[n])
        ELSE Fallback(numbers)

\* lines 64-139: quantity, rate and amount from a non-empty list of numbers
Heuristics(numbers) ==
    LET n == Len(numbers)
    IN  IF n = 1 THEN QRA(ROne, numbers[1], numbers[1])
        ELSE IF n >= 3 /\ Multiplies(numbers[n - 2], numbers[n - 1], numbers[n])
             THEN QRA(numbers[n - 2], numbers[n - 1], numbers[n])
        ELSE IF n >= 3 /\ Multiplies(numbers[n - 1], numbers[n - 2], numbers[n])
             THEN QRA(numbers[n - 1], numbers[n - 2], numbers[n])
        ELSE Fallback(numbers)

\* lines 148-163: the item name
ItemName(line) ==
    LET start == FirstNumStart(line)
        cut == IF start <= Len(line) THEN SubSeq(line, 1, start) ELSE line
        trimmed == StripChars(cut, {" ", ":", "-", "TAB", "|"})
    IN  Strip(Remove(Remove(StripSerial(trimmed), <<"$", "G">>), <<"R", "R">>))

NoQRA == QRA(RZero, RZero, RZero)
LineResult(outcome, numbers, qra, name) ==
    [outcome |-> outcome, numbers |-> numbers, quantity |-> qra.quantity,
     rate |-> qra.rate, amount |-> qra.amount, name |-> name]

BillItem(name, quantity, rate, amount) ==
    [item_name |-> name, item_quantity |-> quantity, item_rate |-> rate,
     item_amount |-> amount]

\* line 142 with the lower bound dropped
QuantityInRange_NoLowerBound(quantity) == RLe(quantity, RInt(1000))

\* line 142: 0.0 < quantity <= 1000.0
QuantityInRange(quantity) == RLt(RZero, quantity) /\ RLe(quantity, RInt(1000))

Sanity(line, numbers, h, name) ==
    IF ~QuantityInRange(h.quantity)
    THEN LineResult("badquantity", numbers, h, <<>>)
    ELSE IF RLe(h.amount, RZero)
    THEN LineResult("badamount", numbers, h, <<>>)
    ELSE IF Len(name) < 3
    THEN LineResult("badname", numbers, h, name)
    ELSE LineResult("item", numbers, h, name)

Checked(line, numbers) ==
    IF numbers = <<>> THEN LineResult("nonumbers", numbers, NoQRA, <<>>)
    ELSE Sanity(line, numbers, Heuristics(numbers), ItemName(line))

\* one iteration of the loop over the lines of a page (lines 23-173): where
\* the iteration ends and the values of its locals there
ProcessLine(line) ==
    LET stripped_line == Strip(line) IN
    IF line = <<>> \/ stripped_line = <<>> THEN LineResult("blank", <<>>, NoQRA, <<>>)
    ELSE IF is_header_or_meta(line) THEN LineResult("meta", <<>>, NoQRA, <<>>)
    ELSE IF \A i \in 1..Len(stripped_line) : ~IsDigit(stripped_line[i])
         THEN LineResult("nodigit", <<>>, NoQRA, <<>>)
    ELSE IF Len(stripped_line) < 5 THEN LineResult("short", <<>>, NoQRA, <<>>)
    ELSE Checked(line, Numbers(line))

----------------------------------------------------------------------------
(* Inputs of extract_pagewise_line_items: pages of OCR lines *)

MaxNums == 3
MaxLines == 2
MaxPages == 2

\* a line is its tokens joined by single blanks
RECURSIVE JoinBlank(_)
JoinBlank(ts) ==
    IF ts = <<>> THEN <<>>
    ELSE IF Len(ts) = 1 THEN ts[1].s
    ELSE ts[1].s \o <<" ">> \o JoinBlank(Tail(ts))

Line(ts) == [s |-> JoinBlank(ts), toks |-> ts]

SerialTok == Frag("serial", <<"1", "2", ".">>, RInt(12))
DateTok == Frag("date", <<"1", "2", "/", "0", "3", "/", "2", "0", "2", "4">>, RZero)
SyringeTok == Frag("name", <<"S", "y", "r", "i", "n", "g", "e">>, RZero)
ParacetamolTok ==
    Frag("name", <<"P", "a", "r", "a", "c", "e", "t", "a", "m", "o", "l">>, RZero)
ShortTok == Frag("shortname", <<"a", "b">>, RZero)
Num(s, v) == Frag("num", s, v)

NumToks ==
    { Num(<<"0">>, RZero), Num(<<"1">>, ROne), Num(<<"3">>, RInt(3)),
      Num(<<"2", "0">>, RInt(20)), Num(<<"6", "0">>, RInt(60)),
      Num(<<"5", "0", "0">>, RInt(500)), DateTok }

Leads == {<<>>, <<SerialTok>>, <<DateTok>>}
NameToks == {SyringeTok, ShortTok}

ProductLines ==
    {Line(lead \o <<name>> \o nums) :
        lead \in Leads, name \in NameToks, nums \in FragSeqs(NumToks, MaxNums)}

ParacetamolLine ==
    Line(<<ParacetamolTok, Num(<<"2">>, RInt(2)), Num(<<"1", "5", ".", "5", "0">>, R(31, 2)),
           Num(<<"3", "1", ".", "0", "0">>, RInt(31))>>)
SerialSyringeLine ==
    Line(<<SerialTok, SyringeTok, Num(<<"3">>, RInt(3)), Num(<<"2", "0">>, RInt(20)),
           Num(<<"6", "0">>, RInt(60))>>)
ConsultationLine ==
    Line(<<Frag("name", <<"C", "o", "n", "s", "u", "l", "t", "a", "t", "i", "o", "n">>, RZero),
           Frag("name", <<"F", "e", "e">>, RZero), Num(<<"5", "0", "0">>, RInt(500))>>)
TotalLine ==
    Line(<<Frag("keyword", <<"T", "o", "t", "a", "l">>, RZero), Num(<<"5", "0", "0">>, RInt(500))>>)
\* 'age' inside a product name
BandageLine ==
    Line(<<Frag("keyword", <<"B", "a", "n", "d", "a", "g", "e">>, RZero), Num(<<"2">>, RInt(2)),
           Num(<<"2", "0">>, RInt(20)), Num(<<"4", "0">>, RInt(40))>>)
TaxLine ==
    Line(<<Frag("taxterm", <<"T", "a", "x">>, RZero), Num(<<"1", "8">>, RInt(18)),
           Num(<<"9", "0">>, RInt(90))>>)
DiscountLine ==
    Line(<<Frag("taxterm", <<"D", "i", "s", "c", "o", "u", "n", "t">>, RZero),
           Num(<<"5">>, RInt(5)), Num(<<"5", "0">>, RInt(50))>>)
BlankLine == Line(<<Frag("space", <<" ">>, RZero)>>)

\* 1001 x 1 = 1001: a multiplicative match whose quantity exceeds 1000
BigQuantityLine ==
    Line(<<SyringeTok, Num(<<"1", "0", "0", "1">>, RInt(1001)), Num(<<"1">>, ROne),
           Num(<<"1", "0", "0", "1">>, RInt(1001))>>)
YearLine == Line(<<SyringeTok, Frag("year", <<"2", "0", "2", "4">>, RInt(2024)), Num(<<"6", "0">>, RInt(60))>>)
GroupedLine ==
    Line(<<SyringeTok, Frag("grouped", <<"1", ",", "2", "0", "0", ".", "0", "0">>, RInt(1200))>>)
ZeroLine == Line(<<SyringeTok, Num(<<"0">>, RZero)>>)
\* two numbers less than 0.1 apart
NearEqualLine ==
    Line(<<SyringeTok, Num(<<"6", "0", ".", "0", "5">>, R(1201, 20)), Num(<<"6", "0">>, RInt(60))>>)
\* three numbers without a match, the third from last no integer
FractionLine ==
    Line(<<SyringeTok, Num(<<"0", ".", "5">>, R(1, 2)), Num(<<"3">>, RInt(3)),
           Num(<<"6", "0">>, RInt(60))>>)

\* one number, too long for a float
LongNumberLine == Line(<<SyringeTok, Num(<<LongRun>>, RInf)>>)

ExampleLines ==
    {ParacetamolLine, SerialSyringeLine, ConsultationLine, TotalLine, BlankLine,
     BigQuantityLine, YearLine, GroupedLine, ZeroLine, NearEqualLine, FractionLine,
     BandageLine, TaxLine, DiscountLine, LongNumberLine}

\* the lines that make up the pages of more than one line
CoreLines == {ParacetamolLine, BigQuantityLine}

CorePages == UNION {[1..n -> CoreLines] : n \in 0..MaxLines}

Docs ==
    {<<(<<l>>)>> : l \in ProductLines \cup ExampleLines}
        \cup UNION {[1..n -> CorePages] : n \in 1..MaxPages}

NoLine == Line(<<>>)
NoResult == [src |-> NoLine, outcome |-> "none", numbers |-> <<>>, quantity |-> RZero,
             rate |-> RZero, amount |-> RZero, name |-> <<>>]

ParserIdle ==
    /\ all_pages_lines = <<>> /\ idx = 0 /\ line_pos = 0
    /\ bill_items = <<>> /\ last = NoResult /\ pagewise_items = <<>>

RECURSIVE Str(_)
\* str(n) for a natural number
Str(n) == IF n < 10 THEN <<Digits[n + 1]>> ELSE Str(n \div 10) \o <<Digits[(n % 10) + 1]>>

PageLineItems(page_no, ptype, items) ==
    [page_no |-> page_no, page_type |-> ptype, bill_items |-> items]

----------------------------------------------------------------------------
(* app/vision_extractor.py: repair_bill_items *)

BillData(pagewise, total) ==
    [pagewise_line_items |-> pagewise, total_item_count |-> total]

\* round(x, 2) for x >= 0.  The quotient is rounded exactly, ties to even;
\* Python rounds the binary double, which differs only on exact decimal ties,
\* and RepairValues below produces none.
Round2(x) ==
    LET num == x.n * 100
        fl == num \div x.d
        rem == num - fl * x.d
        k == IF 2 * rem < x.d THEN fl
             ELSE IF 2 * rem > x.d THEN fl + 1
             ELSE IF fl % 2 = 0 THEN fl ELSE fl + 1
    IN  R(k, 100)

IsPositive(x) == RLt(RZero, x)

\* lines 36-41 without the test of line 37
repair_item_no_near_equal(item) ==
    IF item.item_amount = RZero /\ IsPositive(item.item_rate) /\ IsPositive(item.item_quantity)
    THEN [item EXCEPT !.item_amount = Round2(RMul(item.item_rate, item.item_quantity))]
    ELSE IF item.item_rate = RZero /\ IsPositive(item.item_amount) /\ IsPositive(item.item_quantity)
    THEN [item EXCEPT !.item_rate = Round2(RDiv(item.item_amount, item.item_quantity))]
    ELSE IF item.item_quantity = RZero /\ IsPositive(item.item_amount) /\ IsPositive(item.item_rate)
    THEN [item EXCEPT !.item_quantity = Round2(RDiv(item.item_amount, item.item_rate))]
    ELSE item

\* line 29 assigning item_rate instead of item_amount
repair_item_wrong_field(item) ==
    IF item.item_amount = RZero /\ IsPositive(item.item_rate) /\ IsPositive(item.item_quantity)
    THEN [item EXCEPT !.item_rate = Round2(RMul(item.item_rate, item.item_quantity))]
    ELSE IF item.item_rate = RZero /\ IsPositive(item.item_amount) /\ IsPositive(item.item_quantity)
    THEN [item EXCEPT !.item_rate = Round2(RDiv(item.item_amount, item.item_quantity))]
    ELSE IF item.item_quantity = RZero /\ IsPositive(item.item_amount) /\ IsPositive(item.item_rate)
    THEN IF RLt(RAbs(RSub(item.item_amount, item.item_rate)), R(1, 10))
         THEN [item EXCEPT !.item_quantity = ROne]
         ELSE [item EXCEPT !.item_quantity = Round2(RDiv(item.item_amount, item.item_rate))]
    ELSE item

\* the body of the inner loop (lines 27-41)
repair_item_no_zero_test(item) ==
    IF IsPositive(item.item_rate) /\ IsPositive(item.item_quantity)
    THEN [item EXCEPT !.item_amount = Round2(RMul(item.item_rate, item.item_quantity))]
    ELSE IF item.item_rate = RZero /\ IsPositive(item.item_amount) /\ IsPositive(item.item_quantity)
    THEN [item EXCEPT !.item_rate = Round2(RDiv(item.item_amount, item.item_quantity))]
    ELSE IF item.item_quantity = RZero /\ IsPositive(item.item_amount) /\ IsPositive(item.item_rate)
    THEN IF RLt(RAbs(RSub(item.item_amount, item.item_rate)), R(1, 10))
         THEN [item EXCEPT !.item_quantity = ROne]
         ELSE [item EXCEPT !.item_quantity = Round2(RDiv(item.item_amount, item.item_rate))]
    ELSE item
repair_item(item) ==
    IF item.item_amount = RZero /\ IsPositive(item.item_rate) /\ IsPositive(item.item_quantity)
    THEN [item EXCEPT !.item_amount = Round2(RMul(item.item_rate, item.item_quantity))]
    ELSE IF item.item_rate = RZero /\ IsPositive(item.item_amount) /\ IsPositive(item.item_quantity)
    THEN [item EXCEPT !.item_rate = Round2(RDiv(item.item_amount, item.item_quantity))]
    ELSE IF item.item_quantity = RZero /\ IsPositive(item.item_amount) /\ IsPositive(item.item_rate)
    THEN IF RLt(RAbs(RSub(item.item_amount, item.item_rate)), R(1, 10))
         THEN [item EXCEPT !.item_quantity = ROne]
         ELSE [item EXCEPT !.item_quantity = Round2(RDiv(item.item_amount, item.item_rate))]
    ELSE item

repair_page(page) ==
    [page EXCEPT !.bill_items = [i \in DOMAIN page.bill_items |-> repair_item(page.bill_items[i])]]

repair_bill_items(data) ==
    [data EXCEPT !.pagewise_line_items =
        [p \in DOMAIN data.pagewise_line_items |-> repair_page(data.pagewise_line_items[p])]]

----------------------------------------------------------------------------
(* Inputs of repair_bill_items: validated documents *)

MaxItems == 2
MaxPasses == 2

RepairValues ==
    {RZero, R(1, 1000), R(1, 10), R(1, 2), ROne, RInt(2), RInt(3), RInt(50),
     RInt(-1), R(1001, 100)}

ItemNameText == <<"I", "t", "e", "m">>

RepairItems ==
    {BillItem(ItemNameText, q, r, a) : q \in RepairValues, r \in RepairValues, a \in RepairValues}

\* rate 50.0, quantity 2.0, amount 0.0
MissingAmountItem == BillItem(ItemNameText, RInt(2), RInt(50), RZero)
CompleteItem == BillItem(ItemNameText, ROne, RInt(3), RInt(3))

\* the items that make up the pages of more than one item
CoreItems == {MissingAmountItem, CompleteItem}

CoreItemPages ==
    {PageLineItems(<<"1">>, pt, items) :
        pt \in {BILL_DETAIL, PHARMACY},
        items \in UNION {[1..n -> CoreItems] : n \in 0..MaxItems}}

RECURSIVE CountItems(_)
CountItems(pagewise) ==
    IF pagewise = <<>> THEN 0
    ELSE Len(pagewise[1].bill_items) + CountItems(Tail(pagewise))

Renumbered(pagewise) ==
    [p \in DOMAIN pagewise |-> [pagewise[p] EXCEPT !.page_no = Str(p)]]

RepairDocs ==
    {BillData(<<PageLineItems(<<"1">>, BILL_DETAIL, <<it>>)>>, 1) : it \in RepairItems}
        \cup {BillData(Renumbered(pw), CountItems(pw)) :
                pw \in UNION {[1..n -> CoreItemPages] : n \in 0..MaxPages}}

NoData == BillData(<<>>, 0)
RepairIdle == bill_data = NoData /\ passes = 0

\* one call repair_bill_items(bill_data) (lines 20-43)
Repair ==
    /\ passes < MaxPasses
    /\ bill_data' = repair_bill_items(bill_data)
    /\ passes' = passes + 1
    /\ UNCHANGED <<varsNorm, varsType, varsParser, varsVision>>


----------------------------------------------------------------------------
(* app/vision_extractor.py: process_page_vision *)

max_retries == 2

\* what one call of the external service comes to.  kind "raise":
\* generate_content raised; "invalid_json": json.loads raises (the message of
\* a JSONDecodeError names a position, '... (char 429)'); for both, limit tells
\* whether the message holds '429' or 'quota'; "not_dict": the JSON value is a
\* list; "dict": a JSON object whose pagewise_line_items are the entries
Reply(kind, limit, entries) == [kind |-> kind, limit |-> limit, entries |-> entries]

MissingKey == NumValue("missing", FNan, FALSE)
\* a page entry with its page_no key (read by llm_extractor.py only)
EntryNo(no, ptype, items) == [page_no |-> no, page_type |-> ptype, bill_items |-> items]
Entry(ptype, items) == EntryNo(MissingKey, ptype, items)
RawItem(name, quantity, rate, amount) ==
    [item_name |-> name, item_quantity |-> quantity, item_rate |-> rate,
     item_amount |-> amount]

Text(s) == StrValue(<<Frag("other", s, RZero)>>)

\* the three before-validators of BillItem (lines 147-152)
ItemRaises(i) ==
    \E v \in {i.item_quantity, i.item_rate, i.item_amount} : clean_floats(v).st = "raised"

ValidItem(i) ==
    BillItem(i.item_name, clean_floats(i.item_quantity).f.v, clean_floats(i.item_rate).f.v,
             clean_floats(i.item_amount).f.v)

\* p.get("page_type", "Bill Detail") (line 162)
LabelOf(p) ==
    IF p.page_type = MissingKey THEN Text(<<"B", "i", "l", "l", " ", "D", "e", "t", "a", "i", "l">>)
    ELSE p.page_type

EntryRaises(p) ==
    \/ \E i \in DOMAIN p.bill_items : ItemRaises(p.bill_items[i])
    \/ PageTypeField(LabelOf(p)).st = "ValidationError"

\* lines 144-164
ValidPage(page_num, p) ==
    PageLineItems(Str(page_num), PageTypeField(LabelOf(p)).e,
                  [i \in DOMAIN p.bill_items |-> ValidItem(p.bill_items[i])])

Failed(limit) == [ok |-> FALSE, limit |-> limit, data |-> BillData(<<>>, 0)]

\* the try block (lines 121-176): the document built from the reply, or the
\* exception that ends it (apart from JSONDecodeError, none of the messages
\* of the exceptions raised after the call holds '429' or 'quota' for the
\* replies below)
TryBlock(page_num, reply) ==
    IF reply.kind = "raise" THEN Failed(reply.limit)
    ELSE IF reply.kind = "invalid_json" THEN Failed(reply.limit)
    ELSE IF reply.kind = "not_dict" THEN Failed(FALSE)
    ELSE IF \E e \in DOMAIN reply.entries : EntryRaises(reply.entries[e]) THEN Failed(FALSE)
    ELSE LET pagewise == [e \in DOMAIN reply.entries |-> ValidPage(page_num, reply.entries[e])]
         IN  [ok |-> TRUE, limit |-> FALSE, data |-> BillData(pagewise, CountItems(pagewise))]

\* one iteration of `for attempt in range(max_retries)` (lines 119-189):
\* a return with a document, or `continue`
process_page_vision_retry_any(page_num, attempt, reply) ==
    LET t == TryBlock(page_num, reply)
    IN  IF t.ok THEN [retry |-> FALSE, data |-> t.data]
        ELSE IF attempt < max_retries - 1
        THEN [retry |-> TRUE, data |-> BillData(<<>>, 0)]
        ELSE [retry |-> FALSE, data |-> BillData(<<>>, 0)]
process_page_vision(page_num, attempt, reply) ==
    LET t == TryBlock(page_num, reply)
    IN  IF t.ok THEN [retry |-> FALSE, data |-> t.data]
        ELSE IF t.limit /\ attempt < max_retries - 1
        THEN [retry |-> TRUE, data |-> BillData(<<>>, 0)]
        ELSE [retry |-> FALSE, data |-> BillData(<<>>, 0)]

----------------------------------------------------------------------------
(* app/vision_extractor.py: aggregation (lines 206-230) *)

\* str.isdigit: every character has the Unicode property of a digit, which
\* the superscript one (U+00B9) has too, and there is at least one
str_isdigit(s) == s # <<>> /\ \A i \in DOMAIN s : IsDigit(s[i]) \/ s[i] = "SUP1"

\* int(s) raises ValueError on a superscript digit
IntRaises(s) == \E i \in DOMAIN s : ~IsDigit(s[i])

\* int(x.page_no) if x.page_no.isdigit() else 0 (line 219)
SortKey(page) == IF str_isdigit(page.page_no) THEN DigitsVal(page.page_no) ELSE 0

\* the key function raises for one of the pages: sort raises in its turn
SortRaises(pagewise) ==
    \E k \in DOMAIN pagewise :
        str_isdigit(pagewise[k].page_no) /\ IntRaises(pagewise[k].page_no)

RECURSIVE InsertByKey(_, _)
InsertByKey(sorted, x) ==
    IF sorted = <<>> THEN <<x>>
    ELSE IF SortKey(Head(sorted)) <= SortKey(x)
    THEN <<Head(sorted)>> \o InsertByKey(Tail(sorted), x)
    ELSE <<x>> \o sorted

RECURSIVE SortPages(_)
\* list.sort(key=...): stable
SortPages(pagewise) ==
    IF pagewise = <<>> THEN <<>>
    ELSE InsertByKey(SortPages(SubSeq(pagewise, 1, Len(pagewise) - 1)),
                     pagewise[Len(pagewise)])

RECURSIVE Extend_CountingPages(_, _)
\* line 213 adding the number of pages of the result instead of its count
Extend_CountingPages(res, n) ==
    IF n = 0 THEN BillData(<<>>, 0)
    ELSE LET acc == Extend_CountingPages(res, n - 1)
         IN  BillData(acc.pagewise_line_items \o res[n].pagewise_line_items,
                      acc.total_item_count + Len(res[n].pagewise_line_items))

RECURSIVE Extend(_, _)
\* the loop of lines 211-213 over results[1..n], in task order
Extend(res, n) ==
    IF n = 0 THEN BillData(<<>>, 0)
    ELSE LET acc == Extend(res, n - 1)
         IN  BillData(acc.pagewise_line_items \o res[n].pagewise_line_items,
                      acc.total_item_count + res[n].total_item_count)

\* what extract_data_with_llm is left with when an exception leaves it
Propagated == BillData(<<>>, -2)

Aggregated(res, n) ==
    LET acc == Extend(res, n)
    IN  IF SortRaises(acc.pagewise_line_items) THEN Propagated
        ELSE repair_bill_items(BillData(SortPages(acc.pagewise_line_items),
                                        acc.total_item_count))

----------------------------------------------------------------------------
(* extract_pagewise_line_items: the two loops *)

\* one iteration of `for line in lines` (lines 23-173)
ExtractLine ==
    /\ idx >= 1 /\ idx <= Len(all_pages_lines)
    /\ line_pos < Len(all_pages_lines[idx])
    /\ \E ln \in {all_pages_lines[idx][line_pos + 1]} : \E r \in {ProcessLine(ln.s)} :
           /\ last' = [src |-> ln, outcome |-> r.outcome, numbers |-> r.numbers,
                       quantity |-> r.quantity, rate |-> r.rate, amount |-> r.amount,
                       name |-> r.name]
           /\ bill_items' =
                  IF r.outcome = "item"
                  THEN Append(bill_items, BillItem(r.name, r.quantity, r.rate, r.amount))
                  ELSE bill_items
    /\ line_pos' = line_pos + 1
    /\ UNCHANGED <<all_pages_lines, idx, pagewise_items, varsNorm, varsType, varsRepair, varsVision>>

\* the end of one iteration of `for idx, lines in enumerate(...)` (lines 175-179)
\* and the start of the next (line 21)
AppendPage ==
    /\ idx >= 1 /\ idx <= Len(all_pages_lines)
    /\ line_pos = Len(all_pages_lines[idx])
    /\ pagewise_items' =
           Append(pagewise_items,
                  PageLineItems(Str(idx), validate_page_type(
                      StrValue(<<Frag("other", <<"B", "i", "l", "l", " ", "D", "e", "t", "a", "i", "l">>, RZero)>>)).e,
                      bill_items))
    /\ idx' = idx + 1
    /\ line_pos' = 0
    /\ bill_items' = <<>>
    /\ UNCHANGED <<all_pages_lines, last, varsNorm, varsType, varsRepair, varsVision>>


----------------------------------------------------------------------------
(* Inputs of the page pipeline: the pages and the replies of the service *)

MaxImages == 2
SemaphoreSize == 3

SyringeText == <<"S", "y", "r", "i", "n", "g", "e">>

\* quantity 1, rate '1,200.00', amount '$1,200.00'
RawComplete ==
    RawItem(SyringeText, NumValue("int", FNum(ROne), FALSE),
            StrValue(<<Frag("numeral", <<"1", ",", "2", "0", "0", ".", "0", "0">>, RInt(1200))>>),
            StrValue(<<Frag("currency", <<"$">>, RZero),
                       Frag("numeral", <<"1", ",", "2", "0", "0", ".", "0", "0">>, RInt(1200))>>))
\* quantity 2, rate 50.0, amount 'N/A'
RawMissingAmount ==
    RawItem(ItemNameText, NumValue("int", FNum(RInt(2)), FALSE),
            NumValue("float", FNum(RInt(50)), FALSE),
            StrValue(<<Frag("placeholder", <<"N", "/", "A">>, RZero)>>))
\* a quantity such as 10**400
RawHuge ==
    RawItem(ItemNameText, NumValue("int", FInf(FALSE), TRUE),
            NumValue("float", FNum(RInt(50)), FALSE), NumValue("float", FNum(RInt(50)), FALSE))

PlainItemLists == {<<RawComplete>>, <<RawMissingAmount, RawComplete>>}

PharmacyLabel == Text(<<"P", "h", "a", "r", "m", "a", "c", "y">>)
UnrecognizedLabels ==
    { Text(<<"I", "n", "v", "o", "i", "c", "e">>),  \* a text outside the fixed set
      NumValue("none", FNan, FALSE),                \* null
      NumValue("int", FNum(RInt(7)), FALSE) }       \* a number
Labels == {PharmacyLabel, MissingKey} \cup UnrecognizedLabels

Replies ==
    { Reply("raise", TRUE, <<>>), Reply("raise", FALSE, <<>>),
      Reply("invalid_json", FALSE, <<>>), Reply("not_dict", FALSE, <<>>),
      Reply("dict", FALSE, <<>>),
      Reply("dict", FALSE, <<Entry(PharmacyLabel, <<RawHuge>>)>>),
      Reply("dict", FALSE, <<Entry(PharmacyLabel, <<RawComplete>>),
                             Entry(MissingKey, <<>>)>>) }
        \cup {Reply("dict", FALSE, <<Entry(l, items)>>) : l \in Labels, items \in PlainItemLists}

NotReturned == BillData(<<>>, -1)
NoResponse == [is_success |-> FALSE, data |-> NotReturned, message |-> "none"]
Task(pc, attempt) == [pc |-> pc, attempt |-> attempt]

VisionIdle ==
    /\ chunks = <<>> /\ tasks = <<>> /\ semaphore = SemaphoreSize
    /\ calls = <<>> /\ results = <<>> /\ final_data = NoData
    /\ response = NoResponse /\ service = {}

----------------------------------------------------------------------------
(* app/vision_extractor.py: safe_process and extract_data_with_llm *)

\* `async with semaphore` (line 198): the waiters are served in task order
Acquire_NoPermit(p) ==
    /\ tasks[p].pc = "waiting"
    /\ \A q \in 1..(p - 1) : tasks[q].pc # "waiting"
    /\ tasks' = [tasks EXCEPT ![p].pc = "sleeping"]
    /\ semaphore' = semaphore - 1
    /\ UNCHANGED <<service, response, chunks, calls, results, final_data>>
Acquire(p) ==
    /\ tasks[p].pc = "waiting"
    /\ semaphore > 0
    /\ \A q \in 1..(p - 1) : tasks[q].pc # "waiting"
    /\ tasks' = [tasks EXCEPT ![p].pc = "sleeping"]
    /\ semaphore' = semaphore - 1
    /\ UNCHANGED <<service, response, chunks, calls, results, final_data>>

\* asyncio.sleep(2) is over: process_page_vision starts in the thread pool
\* and sends its first request (lines 200-201, 119-128)
Dispatch(p) ==
    /\ tasks[p].pc = "sleeping"
    /\ tasks' = [tasks EXCEPT ![p].pc = "calling"]
    /\ UNCHANGED <<service, response, chunks, semaphore, calls, results, final_data>>

\* the request comes back: the rest of the iteration (lines 130-189), and on a
\* return the end of safe_process, which releases the permit
Respond(p) ==
    /\ tasks[p].pc = "calling"
    /\ \E reply \in service :
         /\ calls' = [calls EXCEPT ![p] = Append(@, reply)]
         /\ \E o \in {process_page_vision(chunks[p], tasks[p].attempt, reply)} :
               IF o.retry
               THEN /\ tasks' = [tasks EXCEPT ![p] = Task("backoff", @.attempt + 1)]
                    /\ UNCHANGED <<semaphore, results>>
               ELSE /\ tasks' = [tasks EXCEPT ![p].pc = "done"]
                    /\ results' = [results EXCEPT ![p] = o.data]
                    /\ semaphore' = semaphore + 1
    /\ UNCHANGED <<service, response, chunks, final_data>>

\* time.sleep(delay) is over: the next iteration sends the request again
Retry(p) ==
    /\ tasks[p].pc = "backoff"
    /\ tasks' = [tasks EXCEPT ![p].pc = "calling"]
    /\ UNCHANGED <<service, response, chunks, semaphore, calls, results, final_data>>

\* gather has every result: aggregation, sort and repair (lines 204-230)
Aggregate ==
    /\ final_data = NotReturned
    /\ \A p \in DOMAIN tasks : tasks[p].pc = "done"
    /\ final_data' = Aggregated(results, Len(chunks))
    /\ UNCHANGED <<service, response, chunks, tasks, semaphore, calls, results>>

----------------------------------------------------------------------------
(* app/main.py: process_extraction *)

\* BillResponseSuccess(is_success=True, data=bill_data) (lines 89-93)
BillResponseSuccess(data) == [is_success |-> TRUE, data |-> data, message |-> "none"]

\* the dict of the `except Exception` clause (lines 103-108)
InternalError ==
    [is_success |-> FALSE, data |-> NoData,
     message |-> "Failed to process document. Internal server error occurred"]

\* extract_data_with_llm is back: the rest of process_extraction (lines 87-108)
ProcessExtraction ==
    /\ response = NoResponse
    /\ final_data # NotReturned
    /\ response' = IF final_data = Propagated THEN InternalError
                   ELSE BillResponseSuccess(final_data)
    /\ UNCHANGED <<service, chunks, tasks, semaphore, calls, results, final_data>>

----------------------------------------------------------------------------
(* app/llm_extractor.py: process_chunk, safe_process, extract_data_with_llm *)

CHUNK_SIZE == 2
ChunkSemaphoreSize == 5

\* str(p.get("page_no", str(start_idx))) (line 119)
PageNoOf(start_idx, p) == IF p.page_no = MissingKey THEN Str(start_idx) ELSE p.page_no.s

\* lines 105-122
ChunkPage(start_idx, p) ==
    PageLineItems(PageNoOf(start_idx, p), PageTypeField(LabelOf(p)).e,
                  [i \in DOMAIN p.bill_items |-> ValidItem(p.bill_items[i])])

\* process_chunk (lines 31-142): the document built from the reply, or the
\* empty document of the two except clauses
process_chunk(start_idx, reply) ==
    IF reply.kind # "dict" THEN BillData(<<>>, 0)
    ELSE IF \E e \in DOMAIN reply.entries : EntryRaises(reply.entries[e])
    THEN BillData(<<>>, 0)
    ELSE LET pagewise == [e \in DOMAIN reply.entries |-> ChunkPage(start_idx, reply.entries[e])]
         IN  BillData(pagewise, CountItems(pagewise))

\* lines 156-173: as in the vision pipeline, without the repair
AggregatedChunks(res, n) ==
    LET acc == Extend(res, n)
    IN  IF SortRaises(acc.pagewise_line_items) THEN Propagated
        ELSE BillData(SortPages(acc.pagewise_line_items), acc.total_item_count)

MaxChunks == 2

BillDetailLabel == Text(<<"B", "i", "l", "l", " ", "D", "e", "t", "a", "i", "l">>)

\* page numbers a reply may carry: digit strings, a text without digits and
\* the superscript one
AsciiPageNos == {Text(<<"1">>), Text(<<"2">>), Text(<<"1", "0">>), Text(<<"x">>)}
PageNos == AsciiPageNos \cup {Text(<<"SUP1">>), MissingKey}
PairPageNos == {Text(<<"1">>), Text(<<"2">>), Text(<<"x">>)}

ChunkReplies ==
    { Reply("raise", FALSE, <<>>), Reply("invalid_json", FALSE, <<>>) }
        \cup {Reply("dict", FALSE, <<EntryNo(no, BillDetailLabel, <<RawComplete>>)>>) :
                no \in PageNos}
        \cup {Reply("dict", FALSE, <<EntryNo(a, BillDetailLabel, <<>>),
                                     EntryNo(b, PharmacyLabel, <<RawComplete>>)>>) :
                a \in PairPageNos, b \in PairPageNos}

\* `async with semaphore` (line 149) and the start of process_chunk, which
\* sends the request (lines 150, 88-91)
AcquireChunk(p) ==
    /\ tasks[p].pc = "waiting"
    /\ semaphore > 0
    /\ \A q \in 1..(p - 1) : tasks[q].pc # "waiting"
    /\ tasks' = [tasks EXCEPT ![p].pc = "calling"]
    /\ semaphore' = semaphore - 1
    /\ UNCHANGED <<service, response, chunks, calls, results, final_data>>

\* the request comes back: the rest of process_chunk (lines 93-142) and the
\* end of safe_process, which releases the permit
RespondChunk(p) ==
    /\ tasks[p].pc = "calling"
    /\ \E reply \in service :
          /\ calls' = [calls EXCEPT ![p] = Append(@, reply)]
          /\ results' = [results EXCEPT ![p] = process_chunk(chunks[p], reply)]
    /\ tasks' = [tasks EXCEPT ![p].pc = "done"]
    /\ semaphore' = semaphore + 1
    /\ UNCHANGED <<service, response, chunks, final_data>>

\* gather has every result: aggregation and sort (lines 153-173)
AggregateChunks ==
    /\ final_data = NotReturned
    /\ \A p \in DOMAIN tasks : tasks[p].pc = "done"
    /\ final_data' = AggregatedChunks(results, Len(chunks))
    /\ UNCHANGED <<service, response, chunks, tasks, semaphore, calls, results>>

----------------------------------------------------------------------------
(* Specifications *)

MaxTasks == 4

InitVision ==
    /\ \E n \in 0..MaxImages :
          /\ chunks = [i \in 1..n |-> i]
          /\ tasks = [i \in 1..n |-> Task("waiting", 0)]
          /\ calls = [i \in 1..n |-> <<>>]
          /\ results = [i \in 1..n |-> NoData]
    /\ semaphore = SemaphoreSize
    /\ final_data = NotReturned
    /\ response = NoResponse /\ service = Replies
    /\ NormIdle /\ TypeIdle /\ ParserIdle /\ RepairIdle
NextVision ==
    \/ \E p \in DOMAIN tasks :
          (Acquire(p) \/ Dispatch(p) \/ Respond(p) \/ Retry(p))
              /\ UNCHANGED <<varsNorm, varsType, varsParser, varsRepair>>
    \/ Aggregate /\ UNCHANGED <<varsNorm, varsType, varsParser, varsRepair>>
    \/ ProcessExtraction /\ UNCHANGED <<varsNorm, varsType, varsParser, varsRepair>>
SpecVision == InitVision /\ [][NextVision]_vars
\* the event loop runs every task that can run, the sleeps end, and a request
\* sent comes back, with a reply or an exception
Fairness ==
    \A p \in 1..MaxTasks :
          /\ WF_varsVision(p \in DOMAIN tasks /\ Acquire(p))
          /\ WF_varsVision(p \in DOMAIN tasks /\ Dispatch(p))
          /\ WF_varsVision(p \in DOMAIN tasks /\ Respond(p))
          /\ WF_varsVision(p \in DOMAIN tasks /\ Retry(p))

\* the pipeline on few pages, the service giving every reply above and also
\* text that is not JSON with an error position of 429
MaxRetryPages == 1
RetryReplies == Replies \cup {Reply("invalid_json", TRUE, <<>>)}
InitRetry ==
    /\ \E n \in 0..MaxRetryPages :
          /\ chunks = [i \in 1..n |-> i]
          /\ tasks = [i \in 1..n |-> Task("waiting", 0)]
          /\ calls = [i \in 1..n |-> <<>>]
          /\ results = [i \in 1..n |-> NoData]
    /\ semaphore = SemaphoreSize
    /\ final_data = NotReturned
    /\ response = NoResponse /\ service = RetryReplies
    /\ NormIdle /\ TypeIdle /\ ParserIdle /\ RepairIdle
FairSpecRetry == InitRetry /\ [][NextVision]_vars /\ Fairness

\* the same pipeline on more pages than the semaphore has permits, with a
\* service that answers a rate limit, another error or an object without pages
ThrottledReplies ==
    { Reply("raise", TRUE, <<>>), Reply("raise", FALSE, <<>>),
      Reply("dict", FALSE, <<>>) }
InitThrottle ==
    /\ \E n \in 1..MaxTasks :
          /\ chunks = [i \in 1..n |-> i]
          /\ tasks = [i \in 1..n |-> Task("waiting", 0)]
          /\ calls = [i \in 1..n |-> <<>>]
          /\ results = [i \in 1..n |-> NoData]
    /\ semaphore = SemaphoreSize
    /\ final_data = NotReturned
    /\ response = NoResponse /\ service = ThrottledReplies
    /\ NormIdle /\ TypeIdle /\ ParserIdle /\ RepairIdle
FairSpecThrottle == InitThrottle /\ [][NextVision]_vars /\ Fairness

\* all_pages_lines of 2n - 1 or 2n pages: n chunks starting at pages 1, 3, ...
InitChunks ==
    /\ \E n \in 0..MaxChunks :
          /\ chunks = [i \in 1..n |-> CHUNK_SIZE * (i - 1) + 1]
          /\ tasks = [i \in 1..n |-> Task("waiting", 0)]
          /\ calls = [i \in 1..n |-> <<>>]
          /\ results = [i \in 1..n |-> NoData]
    /\ semaphore = ChunkSemaphoreSize
    /\ final_data = NotReturned
    /\ response = NoResponse /\ service = ChunkReplies
    /\ NormIdle /\ TypeIdle /\ ParserIdle /\ RepairIdle
NextChunks ==
    \/ \E p \in DOMAIN tasks :
          (AcquireChunk(p) \/ RespondChunk(p))
              /\ UNCHANGED <<varsNorm, varsType, varsParser, varsRepair>>
    \/ AggregateChunks /\ UNCHANGED <<varsNorm, varsType, varsParser, varsRepair>>
SpecChunks == InitChunks /\ [][NextChunks]_vars

InitParser ==
    /\ all_pages_lines \in Docs
    /\ idx = 1 /\ line_pos = 0 /\ bill_items = <<>> /\ last = NoResult
    /\ pagewise_items = <<>>
    /\ NormIdle /\ TypeIdle /\ RepairIdle /\ VisionIdle
NextParser == ExtractLine \/ AppendPage
SpecParser == InitParser /\ [][NextParser]_vars

InitRepair ==
    /\ bill_data \in RepairDocs /\ passes = 0
    /\ NormIdle /\ TypeIdle /\ ParserIdle /\ VisionIdle
NextRepair == Repair
SpecRepair == InitRepair /\ [][NextRepair]_vars


InitNorm ==
    value \in NormInputs /\ cleaned = NotRun /\ TypeIdle /\ ParserIdle /\ RepairIdle /\ VisionIdle
NextNorm == CleanFloats
SpecNorm == InitNorm /\ [][NextNorm]_vars

InitType ==
    label \in LabelInputs /\ page_type = TypeNotRun /\ NormIdle /\ ParserIdle /\ RepairIdle /\ VisionIdle
NextType == ValidatePageType
SpecType == InitType /\ [][NextType]_vars

----------------------------------------------------------------------------
(* Claims about the schema validators *)

HasKind(fs, kinds) == \E i \in DOMAIN fs : fs[i].kind \in kinds
OnlyKinds(fs, kinds) == \A i \in DOMAIN fs : fs[i].kind \in kinds
CountKind(fs, kind) == Cardinality({i \in DOMAIN fs : fs[i].kind = kind})

\* a text that is blank, a placeholder with blanks around it, or holds letters
\* that no float literal has
DegenerateText(fs) ==
    \/ OnlyKinds(fs, {"space"})
    \/ OnlyKinds(fs, {"space", "placeholder"}) /\ CountKind(fs, "placeholder") = 1
         /\ \A i, j \in DOMAIN fs :
               (i < j /\ fs[i].kind = "space" /\ fs[j].kind = "space")
                   => \A m \in i..j : fs[m].kind = "space"
    \/ \E i \in DOMAIN fs : fs[i].s = <<"a", "b", "c">>

\* C5: the Numeric Normalizer is total: it returns a float for every input and
\* never raises; a number comes back as itself converted to float, and a text
\* that is empty, a placeholder or unparseable yields 0.0
C5_NormalizerTotal ==
    cleaned.st # "notrun" =>
        /\ cleaned.st = "returned"
        /\ cleaned.f.k \in {"num", "inf", "nan"}
        /\ value.t \in {"int", "float", "bool"} => cleaned.f = value.f
        /\ (value.t = "str" /\ DegenerateText(value.frags)) => cleaned.f = FNum(RZero)
        /\ value.t \notin {"int", "float", "bool", "str"} => cleaned.f = FNum(RZero)

\* a numeral with currency symbols and blanks around it
DecoratedNumeral(fs) ==
    /\ CountKind(fs, "numeral") = 1
    /\ OnlyKinds(fs, {"numeral", "currency", "space"})

NumeralOf(fs) == fs[CHOOSE i \in DOMAIN fs : fs[i].kind = "numeral"].val

\* C6: a decimal numeral decorated with '$', the rupee sign or 'Rs', with
\* thousands commas and surrounding whitespace, normalizes to the numeral's
\* value, not to the 0.0 default
C6_DecoratedNumeralValue ==
    (cleaned.st # "notrun" /\ value.t = "str" /\ DecoratedNumeral(value.frags))
        => cleaned = Returned(FNum(NumeralOf(value.frags)))

ExpectedPageType(fs) ==
    IF HasKind(fs, {"pharmacy"}) THEN PHARMACY
    ELSE IF HasKind(fs, {"final", "summary"}) THEN FINAL_BILL
    ELSE BILL_DETAIL

\* C7: page-type normalization is case-insensitive and substring-based with
\* fixed precedence: 'pharmacy' gives Pharmacy even beside 'final' or
\* 'summary'; otherwise 'final' or 'summary' gives Final Bill; every other
\* text, the empty one included, gives Bill Detail
C7_PageTypePrecedence ==
    (page_type.st # "notrun" /\ label.t = "str") =>
        /\ page_type = [st |-> "valid", e |-> ExpectedPageType(label.frags)]
        /\ label.s = <<"P", "H", "A", "R", "M", "A", "C", "Y", " ", "I", "T", "E", "M", "S">>
               => page_type.e = PHARMACY
        /\ label.s = <<"G", "r", "a", "n", "d", " ", "S", "u", "m", "m", "a", "r", "y">>
               => page_type.e = FINAL_BILL
        /\ label.s = <<"R", "o", "o", "m", " ", "C", "h", "a", "r", "g", "e", "s">>
               => page_type.e = BILL_DETAIL
        /\ label.s = <<>> => page_type.e = BILL_DETAIL

\* a mixed-case label naming both a pharmacy and a final bill was classified
C7_Witness ==
    /\ page_type.st = "valid"
    /\ page_type.e = PHARMACY
    /\ Len(label.frags) = 2
    /\ label.frags[1].kind = "final"
    /\ label.frags[2].s = <<"P", "H", "A", "R", "M", "A", "C", "Y">>

----------------------------------------------------------------------------
(* Claims about the heuristic parser *)

\* the outcomes of an iteration that got as far as the heuristics
Resolved == {"badquantity", "badamount", "badname", "item"}

ItemInRange(it) ==
    /\ RLt(RZero, it.item_amount)
    /\ RLt(RZero, it.item_quantity) /\ RLe(it.item_quantity, RInt(1000))

\* C1: on every path through the parser an item is emitted only if its
\* amount > 0 and 0 < quantity <= 1000; a line whose resolved quantity is 0
\* or above 1000, or whose amount is <= 0, contributes no item
C1_EmittedItemsInRange ==
    /\ [](/\ \A i \in DOMAIN bill_items : ItemInRange(bill_items[i])
          /\ \A p \in DOMAIN pagewise_items :
                \A i \in DOMAIN pagewise_items[p].bill_items :
                    ItemInRange(pagewise_items[p].bill_items[i])
          /\ (last.outcome \in Resolved /\ (\/ RLe(last.quantity, RZero)
                                             \/ RLt(RInt(1000), last.quantity)
                                             \/ RLe(last.amount, RZero)))
                 => last.outcome \in {"badquantity", "badamount"})
    /\ [][line_pos' = line_pos + 1 =>
              IF last'.outcome = "item"
              THEN bill_items' = Append(bill_items,
                       BillItem(last'.name, last'.quantity, last'.rate, last'.amount))
              ELSE bill_items' = bill_items]_vars

\* a page holds an emitted item and its next line, whose numbers multiply to
\* a quantity of 1001, was refused
C1_Witness ==
    /\ Len(bill_items) = 1
    /\ last.outcome = "badquantity"
    /\ RLt(RInt(1000), last.quantity)
    /\ line_pos = 2

\* |x * y - a| < max(1.0, 5% of a)
WithinTolerance(x, y, a) ==
    LET diff == RAbs(RSub(RMul(x, y), a))
        five == RDiv(RMul(RInt(5), a), RInt(100))
    IN  RLt(diff, IF RLt(five, ROne) THEN ROne ELSE five)

\* C2: with three or more numbers left, when the last three t3, t2, t1 satisfy
\* |t3 x t2 - t1| < max(1.0, 5% of t1) the parser assigns quantity = t3,
\* rate = t2, amount = t1 (the quantity-first ordering wins);
\* 'Paracetamol 2 15.50 31.00' gives quantity 2.0, rate 15.50, amount 31.00
C2_QuantityFirstMatch ==
    /\ (/\ last.outcome \in Resolved
        /\ Len(last.numbers) >= 3
        /\ WithinTolerance(last.numbers[Len(last.numbers) - 2],
                           last.numbers[Len(last.numbers) - 1],
                           last.numbers[Len(last.numbers)]))
           => /\ last.quantity = last.numbers[Len(last.numbers) - 2]
              /\ last.rate = last.numbers[Len(last.numbers) - 1]
              /\ last.amount = last.numbers[Len(last.numbers)]
    /\ last.src = ParacetamolLine
           => /\ last.outcome = "item"
              /\ last.numbers = <<RInt(2), R(31, 2), RInt(31)>>
              /\ BillItem(last.name, last.quantity, last.rate, last.amount) =
                     BillItem(ParacetamolTok.s, RInt(2), R(31, 2), RInt(31))

\* the Paracetamol line was read and its item emitted
C2_Witness ==
    /\ last.src = ParacetamolLine
    /\ last.outcome = "item"
    /\ bill_items # <<>>

\* a serial, a name of three letters or more, then three numbers a b c
\* with a x b = c, a > 0 and c > 0
SerialLine(ts) ==
    /\ Len(ts) = 5
    /\ ts[1].kind = "serial" /\ ts[2].kind = "name"
    /\ \A i \in 3..5 : ts[i].kind = "num"
    /\ RMul(ts[3].val, ts[4].val) = ts[5].val
    /\ RLt(RZero, ts[3].val) /\ RLt(RZero, ts[5].val)

\* C3: a line that starts with a serial-number prefix followed by a name and
\* numbers ('12. Syringe 3 20 60') is not rejected: it gives an item named by
\* the text without the serial ('Syringe') with quantity, rate and amount
\* from the trailing numbers (3.0, 20.0, 60.0)
C3_SerialPrefixStripped ==
    /\ (last.outcome # "none" /\ SerialLine(last.src.toks))
           => /\ last.outcome = "item"
              /\ last.name = last.src.toks[2].s
              /\ last.quantity = last.src.toks[3].val
              /\ last.rate = last.src.toks[4].val
              /\ last.amount = last.src.toks[5].val
    /\ last.src = SerialSyringeLine
           => /\ last.outcome = "item"
              /\ last.name = SyringeTok.s
              /\ QRA(last.quantity, last.rate, last.amount) = QRA(RInt(3), RInt(20), RInt(60))

\* one date, one positive number and otherwise names of three letters or more
DateAndOneNumber(ts) ==
    /\ CountKind(ts, "date") = 1
    /\ CountKind(ts, "num") = 1
    /\ CountKind(ts, "name") >= 1
    /\ OnlyKinds(ts, {"date", "num", "name"})
    /\ \A i \in DOMAIN ts : ts[i].kind = "num" => RLt(RZero, ts[i].val)

\* C4: a kept line with a date-like substring and exactly one other number,
\* wherever the date stands, gives a single-number item: quantity 1.0 and
\* rate = amount = that number; no part of the date becomes a value
C4_DateNeverAValue ==
    (last.outcome # "none" /\ DateAndOneNumber(last.src.toks))
        => /\ last.outcome = "item"
           /\ last.quantity = ROne
           /\ \A i \in DOMAIN last.src.toks :
                 last.src.toks[i].kind = "num"
                     => last.rate = last.src.toks[i].val /\ last.amount = last.src.toks[i].val

----------------------------------------------------------------------------
(* Claims about repair_bill_items *)

ItemsOf(data) ==
    UNION {{<<p, i>> : i \in DOMAIN data.pagewise_line_items[p].bill_items} :
              p \in DOMAIN data.pagewise_line_items}

ItemAt(data, pi) == data.pagewise_line_items[pi[1]].bill_items[pi[2]]

SameShape(d1, d2) ==
    /\ DOMAIN d1.pagewise_line_items = DOMAIN d2.pagewise_line_items
    /\ \A p \in DOMAIN d1.pagewise_line_items :
          DOMAIN d1.pagewise_line_items[p].bill_items =
              DOMAIN d2.pagewise_line_items[p].bill_items

ZeroFields(it) ==
    Cardinality({f \in {"a", "r", "q"} :
        \/ f = "a" /\ it.item_amount = RZero
        \/ f = "r" /\ it.item_rate = RZero
        \/ f = "q" /\ it.item_quantity = RZero})

\* the item `new` is what the three ordered rules make of the item `old`
RepairedAsStated(old, new) ==
    LET a == old.item_amount
        r == old.item_rate
        q == old.item_quantity
        rule1 == a = RZero /\ RLt(RZero, r) /\ RLt(RZero, q)
        rule2 == ~rule1 /\ r = RZero /\ RLt(RZero, a) /\ RLt(RZero, q)
        rule3 == ~rule1 /\ ~rule2 /\ q = RZero /\ RLt(RZero, a) /\ RLt(RZero, r)
    IN  /\ rule1 => new = [old EXCEPT !.item_amount = Round2(RMul(r, q))]
        /\ rule2 => new = [old EXCEPT !.item_rate = Round2(RDiv(a, q))]
        /\ rule3 => new = [old EXCEPT !.item_quantity =
                              IF RLt(RAbs(RSub(a, r)), R(1, 10)) THEN ROne
                              ELSE Round2(RDiv(a, r))]
        /\ ~(rule1 \/ rule2 \/ rule3) => new = old
        /\ ZeroFields(old) >= 2 => new = old
        /\ <<q, r, a>> = <<RInt(2), RInt(50), RZero>> => new.item_amount = RInt(100)
        /\ <<q, r, a>> = <<RInt(3), RZero, ROne>> => new.item_rate = R(33, 100)
        /\ <<q, r, a>> = <<RZero, RInt(3), RInt(50)>> => new.item_quantity = R(1667, 100)
        /\ <<q, r, a>> = <<RZero, R(1, 1000), R(1, 10)>> => new.item_quantity = ROne

\* C9: for every item repair_bill_items applies, in this order: amount = 0,
\* rate > 0, quantity > 0 gives amount = round(rate x quantity, 2); else
\* rate = 0, amount > 0, quantity > 0 gives rate = round(amount / quantity, 2);
\* else quantity = 0, amount > 0, rate > 0 gives quantity = 1.0 when
\* |amount - rate| < 0.1 and round(amount / rate, 2) otherwise; every other
\* item, one with two or more zero fields included, is left unchanged
C9_RepairRuleOrder ==
    [][passes' = passes + 1 =>
          /\ SameShape(bill_data, bill_data')
          /\ \A pi \in ItemsOf(bill_data) :
                RepairedAsStated(ItemAt(bill_data, pi), ItemAt(bill_data', pi))]_vars

\* a quantity of 0 beside amount 50 and rate 3 has been repaired to 16.67
C9_Witness ==
    /\ passes = 1
    /\ \E pi \in ItemsOf(bill_data) :
          ItemAt(bill_data, pi) = BillItem(ItemNameText, R(1667, 100), RInt(3), RInt(50))

\* C10: the repair pass is idempotent: repair_bill_items run on an already
\* repaired document changes no field of any item; rate 50.0, quantity 2.0,
\* amount 0.0 becomes amount 100.0 and stays so under a second repair
C10_RepairIdempotent ==
    [][passes' = passes + 1 =>
          /\ passes >= 1 => bill_data' = bill_data
          /\ \A pi \in ItemsOf(bill_data) :
                ItemAt(bill_data, pi).item_rate = RInt(50)
                    /\ ItemAt(bill_data, pi).item_quantity = RInt(2)
                    /\ ItemAt(bill_data, pi).item_amount \in {RZero, RInt(100)}
                => ItemAt(bill_data', pi).item_amount = RInt(100)]_vars

\* the document holding the item of rate 50, quantity 2 and the repaired
\* amount 100 has been through a second repair
C10_Witness ==
    /\ passes = 2
    /\ \E pi \in ItemsOf(bill_data) :
          ItemAt(bill_data, pi) = BillItem(ItemNameText, RInt(2), RInt(50), RInt(100))

----------------------------------------------------------------------------
(* Claims about the page pipeline *)

LastReply(p) == calls[p][Len(calls[p])]

\* a well-formed reply of one page entry with plain items whose label is
\* outside the fixed set: a text without keyword, null or a number
UnrecognizedLabelReply(reply) ==
    /\ reply.kind = "dict"
    /\ Len(reply.entries) = 1
    /\ reply.entries[1].page_type \in UnrecognizedLabels
    /\ reply.entries[1].bill_items \in PlainItemLists

\* C8: whatever page-type label the external source supplies, null and other
\* non-text values included, the page is emitted with type Bill Detail and
\* keeps its items: the final document holds the page and as many items as
\* the reply gave it
C8_UnrecognizedLabelKeepsPage ==
    final_data # NotReturned =>
        \A p \in DOMAIN calls :
            (calls[p] # <<>> /\ UnrecognizedLabelReply(LastReply(p))) =>
                \E k \in DOMAIN final_data.pagewise_line_items :
                    /\ final_data.pagewise_line_items[k].page_no = Str(chunks[p])
                    /\ final_data.pagewise_line_items[k].page_type = BILL_DETAIL
                    /\ Len(final_data.pagewise_line_items[k].bill_items) =
                           Len(LastReply(p).entries[1].bill_items)

----------------------------------------------------------------------------
(* Claims about the aggregation *)

\* the pages of the per-task results, in task order
Gathered == Extend(results, Len(chunks)).pagewise_line_items

DecimalString(s) ==
    s # <<>> /\ \A i \in DOMAIN s : s[i] \in {"0", "1", "2", "3", "4", "5", "6", "7", "8", "9"}

\* the integer page number, 0 for a page number that is no digit string
OrderKey(page) == IF DecimalString(page.page_no) THEN DigitsVal(page.page_no) ELSE 0

PagesWithKey(pagewise, k) == SelectSeq(pagewise, LAMBDA pg : OrderKey(pg) = k)

\* C11: whatever the order in which the concurrently processed pages complete,
\* the final document lists its pages in ascending order of integer page
\* number; a page whose number is no digit string has key 0 and so comes
\* before page 1; pages of equal keys keep their relative order
C11_PagesAscending ==
    final_data # NotReturned =>
        /\ final_data.total_item_count >= 0
        /\ Len(final_data.pagewise_line_items) = Len(Gathered)
        /\ \A i, j \in DOMAIN final_data.pagewise_line_items :
              i < j => OrderKey(final_data.pagewise_line_items[i])
                           <= OrderKey(final_data.pagewise_line_items[j])
        /\ \A g \in DOMAIN Gathered :
              PagesWithKey(final_data.pagewise_line_items, OrderKey(Gathered[g])) =
                  PagesWithKey(Gathered, OrderKey(Gathered[g]))

\* C12: in every final document the aggregation returns, for any mix of
\* succeeded, retried and failed pages and after the repair pass,
\* total_item_count is the sum over the emitted pages of their numbers of items
C12_TotalIsSumOfItems ==
    final_data \notin {NotReturned, Propagated} =>
        final_data.total_item_count = Cardinality(ItemsOf(final_data))

\* a document of two items was returned after one page was retried and
\* another page's call failed
C12_Witness ==
    /\ final_data.total_item_count = 2
    /\ Len(final_data.pagewise_line_items) = 1
    /\ \E p \in DOMAIN calls : Len(calls[p]) = 2
    /\ \E p \in DOMAIN calls : calls[p] # <<>> /\ LastReply(p).kind = "raise"

\* the last call for page p failed: the service raised (after the retry, when
\* there was one)
CallFailed(p) == calls[p] # <<>> /\ LastReply(p).kind = "raise"

\* every page a task returned is in the final document, with its items
ResultsKept ==
    \A q \in DOMAIN results : \A m \in DOMAIN results[q].pagewise_line_items :
        \E k \in DOMAIN final_data.pagewise_line_items :
            /\ final_data.pagewise_line_items[k].page_no =
                   results[q].pagewise_line_items[m].page_no
            /\ Len(final_data.pagewise_line_items[k].bill_items) =
                   Len(results[q].pagewise_line_items[m].bill_items)

\* C13: when the external call for one page fails, after its retries, the
\* batch is not aborted, the other pages' results are unaffected and the
\* failed page is still in the final document, as a page with an empty item
\* list at its place by page number
C13_FailedPageListed ==
    final_data # NotReturned =>
        /\ final_data # Propagated
        /\ ResultsKept
        /\ \A p \in DOMAIN calls :
              CallFailed(p) =>
                  \E k \in DOMAIN final_data.pagewise_line_items :
                      /\ final_data.pagewise_line_items[k].page_no = Str(chunks[p])
                      /\ final_data.pagewise_line_items[k].bill_items = <<>>
                      /\ \A j \in 1..(k - 1) :
                            OrderKey(final_data.pagewise_line_items[j]) <= chunks[p]

----------------------------------------------------------------------------
(* Claims about the outcome reported upward *)

\* the reply that ended page p is not parseable or not of the expected shape
GarbageReply(p) == calls[p] # <<>> /\ LastReply(p).kind \in {"invalid_json", "not_dict"}

\* there are pages and the processing of every one of them failed
EveryPageFailed ==
    chunks # <<>> /\ \A p \in DOMAIN calls : calls[p] # <<>> /\ LastReply(p).kind # "dict"

\* C14: when the input is structurally invalid (a reply that is not parseable
\* or not of the expected shape) or the processing of every page failed, the
\* outcome reported upward is an explicit failure, never the successful
\* result a document that legitimately has no item gets
C14_GarbageIsDistinctFailure ==
    (response # NoResponse /\ (EveryPageFailed \/ \E p \in DOMAIN calls : GarbageReply(p)))
        => response.is_success = FALSE

----------------------------------------------------------------------------
(* More claims about the heuristic parser *)

Nth(numbers, k) == numbers[Len(numbers) + 1 - k]

\* two or more numbers were left and neither ordering multiplies to the last
NoMatchResolved ==
    /\ last.outcome \in Resolved
    /\ Len(last.numbers) >= 2
    /\ Len(last.numbers) >= 3 =>
          ~WithinTolerance(Nth(last.numbers, 3), Nth(last.numbers, 2), Nth(last.numbers, 1))

\* the candidate c decides: quantity = c and rate = amount / c
AsQuantity(c) ==
    /\ last.quantity = c
    /\ RLt(RZero, c) => last.rate = RDiv(last.amount, c)

DefaultSplit == last.quantity = ROne /\ last.rate = last.amount

OneGroupedNumeral(ts) ==
    /\ Len(ts) = 2
    /\ ts[1].kind = "name"
    /\ ts[2].kind = "grouped"

\* C16: a numeral written with thousands-separating commas is one numeric
\* token whose value is the numeral without the commas ('1,200.00' is the
\* single token 1200.00), so a line with one such numeral is a single-number
\* line: amount = rate = that value and quantity = 1.0
C16_GroupedNumeralIsOneToken ==
    (last.outcome # "none" /\ OneGroupedNumeral(last.src.toks)) =>
        /\ last.numbers = <<last.src.toks[2].val>>
        /\ last.outcome = "item"
        /\ QRA(last.quantity, last.rate, last.amount) =
               QRA(ROne, last.src.toks[2].val, last.src.toks[2].val)

\* the kinds of tokens that hold a digit
DigitKinds == {"num", "date", "serial", "year", "grouped", "numeral"}

\* a line the classifier is to discard, the tokens of the kinds `noise`
\* being those that hold a noise keyword
NoiseLine(ln, noise) ==
    \/ OnlyKinds(ln.toks, {"space"})
    \/ HasKind(ln.toks, noise)
    \/ ~HasKind(ln.toks, DigitKinds)
    \/ Len(Strip(ln.s)) < 5

\* C17 as stated: no item is produced for a line that is empty or blank, or
\* whose lowercase form holds a noise keyword, the keywords covering the
\* header and metadata terms and the total, subtotal, grand-total, tax and
\* discount terms, or that holds no digit, or whose trimmed length is below 5
C17_NoiseDiscarded ==
    [][(line_pos' = line_pos + 1 /\ NoiseLine(last'.src, {"keyword", "taxterm"}))
          => (last'.outcome \in {"blank", "meta", "nodigit", "short"}
                 /\ bill_items' = bill_items)]_vars

\* C17 amended: the keywords are the header and metadata terms and the total,
\* sub total, subtotal, grand total, net amount and amount in words terms;
\* they hold no tax term and no discount term
C17_NoiseDiscardedListedKeywords ==
    [][(line_pos' = line_pos + 1 /\ NoiseLine(last'.src, {"keyword"}))
          => (last'.outcome \in {"blank", "meta", "nodigit", "short"}
                 /\ bill_items' = bill_items)]_vars

\* 'Bandage 2 20 40' was discarded for the keyword 'age' in it
C17_Witness ==
    /\ last.src = BandageLine
    /\ last.outcome = "meta"
    /\ line_pos = 1 /\ bill_items = <<>>

\* the pages inside `async with semaphore`: past the acquire, before the release
InsideSection == {p \in DOMAIN tasks : tasks[p].pc \in {"sleeping", "calling", "backoff"}}
\* the pages whose request to the service is out
InFlight == {p \in DOMAIN tasks : tasks[p].pc = "calling"}

\* C18: whatever the number of pages and the interleaving, at most 3 pages are
\* inside the semaphore-guarded section and so at most 3 calls of the service,
\* first attempts and retries together, are in flight; the permits taken are
\* those of the pages inside, and in the end every page that entered the
\* section has left it for good and all 3 permits are back
C18_AtMostThreeInside ==
    /\ [](/\ Cardinality(InsideSection) <= 3
          /\ Cardinality(InFlight) <= 3
          /\ semaphore = SemaphoreSize - Cardinality(InsideSection))
    /\ <>[](InsideSection = {} /\ semaphore = 3)
\* three requests are out, one of them a retry, while a fourth page waits for
\* a permit
C18_Witness ==
    /\ Cardinality(InFlight) = 3
    /\ \E p \in InFlight : tasks[p].attempt = 1
    /\ \E p \in DOMAIN tasks : tasks[p].pc = "waiting"
    /\ semaphore = 0

\* the call raised, or the parsing of what it returned did
FailedCall(reply) == reply.kind \in {"raise", "invalid_json", "not_dict"}
\* a failure whose message holds '429' or 'quota'
RateLimitClass(reply) == FailedCall(reply) /\ reply.limit
EmptyResult == BillData(<<>>, 0)

\* C19: a page is sent to the service at most 2 times; a second call is made
\* only after a first one that failed with a rate-limit-class failure; a
\* failure of another class on the first attempt, and any failure on the
\* second, ends the page with the empty result; and the processing of every
\* page comes to an end
C19_AtMostTwoCalls ==
    /\ [](\A p \in DOMAIN tasks :
            /\ Len(calls[p]) <= 2
            /\ (Len(calls[p]) = 2 \/ tasks[p].pc = "backoff")
                   => RateLimitClass(calls[p][1])
            /\ (Len(calls[p]) >= 1 /\ FailedCall(calls[p][1]) /\ ~RateLimitClass(calls[p][1]))
                   => (tasks[p].pc = "done" /\ Len(calls[p]) = 1 /\ results[p] = EmptyResult)
            /\ (Len(calls[p]) = 2 /\ FailedCall(calls[p][2]))
                   => (tasks[p].pc = "done" /\ results[p] = EmptyResult))
    /\ <>[](\A p \in DOMAIN tasks : tasks[p].pc = "done")
\* a page whose first call hit the rate limit and whose second failed too
C19_Witness ==
    \E p \in DOMAIN tasks :
        /\ tasks[p].pc = "done" /\ Len(calls[p]) = 2
        /\ RateLimitClass(calls[p][1]) /\ FailedCall(calls[p][2])
        /\ results[p] = EmptyResult

AllItems ==
    {bill_items[i] : i \in DOMAIN bill_items}
        \cup UNION {{pagewise_items[p].bill_items[i] : i \in DOMAIN pagewise_items[p].bill_items} :
                        p \in DOMAIN pagewise_items}

\* C20: every item the heuristic parser emits, whichever branch assigned its
\* fields, has |rate x quantity - amount| < max(1.0, 5% of amount)
C20_ItemsWithinTolerance ==
    \A it \in AllItems : WithinTolerance(it.item_rate, it.item_quantity, it.item_amount)
\* the items whose numbers are all within the float range are within tolerance
FiniteItemsWithinTolerance ==
    \A it \in AllItems :
        it.item_amount # RInf
            => WithinTolerance(it.item_rate, it.item_quantity, it.item_amount)

\* the guards of the three rules, each on its own
AmountGuard(it) ==
    it.item_amount = RZero /\ RLt(RZero, it.item_rate) /\ RLt(RZero, it.item_quantity)
RateGuard(it) ==
    it.item_rate = RZero /\ RLt(RZero, it.item_amount) /\ RLt(RZero, it.item_quantity)
QuantityGuard(it) ==
    it.item_quantity = RZero /\ RLt(RZero, it.item_amount) /\ RLt(RZero, it.item_rate)
GuardsHolding(it) ==
    Cardinality({g \in {"amount", "rate", "quantity"} :
        \/ g = "amount" /\ AmountGuard(it)
        \/ g = "rate" /\ RateGuard(it)
        \/ g = "quantity" /\ QuantityGuard(it)})

\* the numeric fields in which the item `new` differs from the item `old`
ChangedFields(old, new) ==
    {f \in {"amount", "rate", "quantity"} :
        \/ f = "amount" /\ new.item_amount # old.item_amount
        \/ f = "rate" /\ new.item_rate # old.item_rate
        \/ f = "quantity" /\ new.item_quantity # old.item_quantity}
FieldOf(it, f) ==
    IF f = "amount" THEN it.item_amount
    ELSE IF f = "rate" THEN it.item_rate ELSE it.item_quantity

\* C21: the guards of the three repair rules exclude one another, so for
\* every item repair_bill_items changes at most one of amount, rate and
\* quantity, a changed field was exactly 0 before, and every non-zero field,
\* the item name, the type and number of every page, the number of items of
\* every page, the order of the pages and total_item_count stay as they were
C21_RepairFrame ==
    [][passes' = passes + 1 =>
          /\ bill_data'.total_item_count = bill_data.total_item_count
          /\ Len(bill_data'.pagewise_line_items) = Len(bill_data.pagewise_line_items)
          /\ \A p \in DOMAIN bill_data.pagewise_line_items :
                LET old == bill_data.pagewise_line_items[p]
                    new == bill_data'.pagewise_line_items[p]
                IN  /\ new.page_no = old.page_no
                    /\ new.page_type = old.page_type
                    /\ Len(new.bill_items) = Len(old.bill_items)
                    /\ \A i \in DOMAIN old.bill_items :
                          LET o == old.bill_items[i]
                              n == new.bill_items[i]
                          IN  /\ GuardsHolding(o) <= 1
                              /\ Cardinality(ChangedFields(o, n)) <= 1
                              /\ \A f \in ChangedFields(o, n) : FieldOf(o, f) = RZero
                              /\ \A f \in {"amount", "rate", "quantity"} :
                                    FieldOf(o, f) # RZero => FieldOf(n, f) = FieldOf(o, f)
                              /\ n.item_name = o.item_name]_vars

\* a document of two pages has been repaired: the amount 0 of one item is now
\* 100, a complete item stands beside it, and the pages and the total are in
\* place
C21_Witness ==
    /\ passes = 1
    /\ Len(bill_data.pagewise_line_items) = 2
    /\ bill_data.pagewise_line_items[1].page_no = <<"1">>
    /\ bill_data.pagewise_line_items[2].page_no = <<"2">>
    /\ bill_data.pagewise_line_items[1].page_type # bill_data.pagewise_line_items[2].page_type
    /\ bill_data.pagewise_line_items[1].bill_items =
           <<BillItem(ItemNameText, RInt(2), RInt(50), RInt(100)), CompleteItem>>
    /\ bill_data.total_item_count = 2 + Len(bill_data.pagewise_line_items[2].bill_items)

=============================================================================
